---- MODULE Spec2Model ----
(***************************************************************************)
(* A model of the TCP load balancer of src/src/lib.rs: the backend pool    *)
(* and its two selection strategies, the listener loop of                  *)
(* run_load_balancer, and the connection forwarder handle_client with its  *)
(* two relay threads.                                                      *)
(*                                                                         *)
(* Every Arc<Mutex<Backend>> access of the source is one critical section  *)
(* on one backend; one critical section is one atomic step of the model,   *)
(* and the steps of the listener thread, of the handler threads and of the *)
(* relay threads interleave freely.  Backends are numbered 1..n in pool    *)
(* order (the source's index i is i+1 here); 0 stands for None.            *)
(*                                                                         *)
(* The owner of every backend's mutex is part of the state.  In Spec a     *)
(* critical section takes and drops its lock within its step; SpecLocks    *)
(* adds the lock() call as a step of its own and the periodic status       *)
(* thread, so that a thread can be seen waiting for a lock another holds.  *)
(***************************************************************************)
EXTENDS Naturals, Integers, Sequences, FiniteSets

\* Bounds of the model.
MaxBackends == 3
MaxClients == 3
MaxInflight == 2
MaxChunks == 1

\* usize::MAX, the value 0usize - 1 wraps to when overflow checks are off.
\* 2^64 - 1 on the 64-bit targets; the largest integer of the model checker
\* stands for it.  It is only ever compared, never computed with.
UsizeMax == 2147483647

VARIABLES
    strategy,   \* LoadBalancer.strategy
    backends,   \* LoadBalancer.backends: sequence of Backend records
    current,    \* LoadBalancer.current: the round-robin cursor (0-based)
    lpc,        \* position of the listener thread in run_load_balancer
    lcl,        \* locals of the listener thread (the call in progress)
    clients,    \* per accepted client: what the listener did with it
    sess,       \* per accepted client: the handle_client thread spawned for it
    locks,      \* per backend: the thread that holds its mutex, 0 when free
    stat,       \* the periodic status thread of run_load_balancer
    sock,       \* SpecRelay: the two peers of the session and their sockets
    rly         \* SpecRelay: per relay direction, the bytes read and written

vars ==
    <<strategy, backends, current, lpc, lcl, clients, sess, locks, stat,
      sock, rly>>

Strategies == {"RoundRobin", "LeastConnections"}
ClientIds == 1..MaxClients

\* Backend::new: counters at zero.  The maintenance flag is written by no
\* code path of lib.rs; it is a pub field the pool's owner sets before
\* serving, so the initial state draws it freely and no action changes it.
NewBackend(addr, maint) ==
    [address |-> addr, active_connections |-> 0, total_handled |-> 0,
     maintenance |-> maint]

N == Len(backends)
Pool == 1..N

\* The two peers of a session and the two relay directions: "c2b" is relay
\* thread t1 (client -> backend), "b2c" is relay thread t2.
Peers == {"client", "backend"}
Directions == {"c2b", "b2c"}

\* A peer that has sent nothing; st is "open", "fin" once the peer has shut
\* its sending side down (it may still read), "closed" once it has closed
\* its socket, "reset" once the connection is reset (the peer has failed,
\* or has answered bytes written to its closed socket); fin says that the
\* end of the peer's stream has arrived (before a reset, if there is one),
\* err that the reset has left an error on the balancer's socket which no
\* read or write has returned yet.  The k-th byte a peer sends is the
\* number k, so that a lost, repeated or misplaced byte shows in the
\* sequences of rly.
NoSockets ==
    [p \in Peers |-> [st |-> "open", sent |-> 0, fin |-> FALSE, err |-> FALSE]]

\* A relay direction that has read nothing: rd are the bytes read from the
\* source, wr the bytes written to the destination, buf the bytes of the
\* chunk read last that write_all has not written yet.
NoRelay == [d \in Directions |-> [rd |-> <<>>, wr |-> <<>>, buf |-> <<>>]]

\* The threads that lock backends: the handler thread of client c is c, then
\* the listener thread (the thread that runs run_load_balancer and owns the
\* LoadBalancer) and the periodic status thread it spawns.
ListenerThread == MaxClients + 1
StatusThread == MaxClients + 2
Threads == ClientIds \cup {ListenerThread, StatusThread}

\* `backend.lock().unwrap()` returns to thread t: t owns the mutex of b.
Locked(lk, b, t) == [lk EXCEPT ![b] = t]

\* A guard that is never dropped.
GuardKept(lk, b) == lk

\* The MutexGuard of backend b goes out of scope: the mutex is free.
Unlocked(lk, b) == [lk EXCEPT ![b] = 0]

\* Thread t can run its critical section on backend b: the mutex is free
\* (the step takes it and drops it) or t took it in a step of its own.
Enters(t, b) == locks[b] \in {0, t}

\* The locks thread t holds.
HeldBy(t) == {b \in Pool : locks[b] = t}

\* The locals of the listener between two calls.
\* start is the value of the cursor when round_robin was entered (history).
NoCall ==
    [client |-> 0, iter |-> 0, idx |-> 0, best |-> 0, bestKey |-> 0,
     keys |-> <<>>, result |-> 0, start |-> 0]

\* A client the listener has not accepted yet.
\* result: -1 before next_backend has answered for it, 0 for None, else the
\* backend returned.  toClient counts the relayed chunks written to the
\* client socket by its session.
NoClient ==
    [accepted |-> FALSE, result |-> -1, resp503 |-> "none",
     shutdown |-> FALSE, spawned |-> FALSE, toClient |-> 0]

\* A handle_client thread that does not exist (yet).  t1 is the relay thread
\* client->backend, t2 the relay thread backend->client.  released counts
\* the decrements the call has performed (history).
NoSession ==
    [pc |-> "none", backend |-> 0, id |-> 0, t1 |-> "idle", t2 |-> "idle",
     released |-> 0, ret |-> "none"]

\* The periodic status thread before it is spawned.  Once spawned it sleeps
\* ("sleep"), then visits the backends in pool order: at "iter" its next
\* critical section is on backend idx.
NoStatusThread == [pc |-> "unspawned", idx |-> 0]

\* LoadBalancer::new for every pool of at most MaxBackends backends, as
\* run_load_balancer has built it when it calls lb.log_status() (line 331).
Init ==
    /\ strategy \in Strategies
    /\ \E n \in 0..MaxBackends :
         \E m \in [1..n -> BOOLEAN] :
            backends = [i \in 1..n |-> NewBackend(i, m[i])]
    /\ current = 0
    /\ lpc = "log_status"
    /\ lcl = [NoCall EXCEPT !.idx = 1]
    /\ clients = [c \in ClientIds |-> NoClient]
    /\ sess = [c \in ClientIds |-> NoSession]
    /\ locks = [b \in Pool |-> 0]
    /\ stat = NoStatusThread
    /\ sock = NoSockets
    /\ rly = NoRelay

----------------------------------------------------------------------------
(* The selector: LoadBalancer::next_backend, round_robin, least_connections *)

\* A cursor that is not advanced.
RRCursorStuck(cur, n) == cur

\* A cursor that is not wrapped around.
RRCursorNoWrap(cur, n) == cur + 1

\* A cursor that moves two places.
RRCursorSkipsOne(cur, n) == (cur + 2) % n

\* round_robin: self.current = (self.current + 1) % n
RRNextCursor(cur, n) == (cur + 1) % n

\* A scan that stops one candidate short.
RRScanLimitShort(n) == n - 1

\* round_robin: `for _ in 0..n`: at most n candidates are examined.
RRScanLimit(n) == n

\* A test that lets every backend pass.
EligibleAlways(be) == TRUE

\* The maintenance test of round_robin (`if !b.maintenance`) and of
\* least_connections (`.filter(|b| !b.lock().unwrap().maintenance)`).
Eligible(be) == ~be.maintenance

\* The comparison of max_by_key.
LcBetterMax(key, best, bestKey) == best = 0 \/ key > bestKey

\* A comparison that lets a later equal key win.
LcBetterLast(key, best, bestKey) == best = 0 \/ key <= bestKey

\* min_by_key keeps the element it holds unless the new key is strictly
\* smaller (Iterator::min_by reduces with `Greater => y, _ => x`), so the
\* first of several equal keys is kept.
LcBetter(key, best, bestKey) == best = 0 \/ key < bestKey

\* The handle_client threads that are running.
Live ==
    {c \in ClientIds : \/ sess[c].pc \notin {"none", "done", "panicked"}
                       \/ sess[c].t1 = "running"
                       \/ sess[c].t2 = "running"}

\* listener.incoming() yields the next client; connection_count += 1.
\* (An accept error is logged and the loop continues: no state changes.)
\* The environment is bounded: MaxClients clients connect in all, and one
\* connects only while fewer than MaxInflight handler threads are running.
Accept(c) ==
    /\ lpc = "accept"
    /\ Cardinality(Live) < MaxInflight
    /\ ~clients[c].accepted
    /\ \A d \in ClientIds : d < c => clients[d].accepted
    /\ clients' = [clients EXCEPT ![c].accepted = TRUE]
    /\ lcl' = [NoCall EXCEPT !.client = c]
    /\ lpc' = "next_backend"
    /\ UNCHANGED <<strategy, backends, current, sess, locks, stat, sock, rly>>

\* next_backend: None for an empty pool, else the strategy's function.
NextBackend ==
    /\ lpc = "next_backend"
    /\ IF N = 0
         THEN /\ lpc' = "returned"
              /\ lcl' = [lcl EXCEPT !.result = 0]
         ELSE IF strategy = "RoundRobin"
                 THEN /\ lpc' = "round_robin"
                      /\ lcl' = [lcl EXCEPT !.iter = 0, !.start = current]
                 ELSE /\ lpc' = "least_connections"
                      /\ lcl' = [lcl EXCEPT !.idx = 1, !.best = 0]
    /\ UNCHANGED <<strategy, backends, current, clients, sess, locks, stat,
                   sock, rly>>

\* An iteration of `for _ in 0..n` in round_robin begins (lines 82-83):
\* take backends[current] (lcl.idx, counted from 1) and advance the cursor,
\* before the backend is locked.
RoundRobinTake ==
    /\ lpc = "round_robin"
    /\ lcl.iter < RRScanLimit(N)
    /\ lcl' = [lcl EXCEPT !.idx = current + 1]
    /\ current' = RRNextCursor(current, N)
    /\ lpc' = "rr_lock"
    /\ UNCHANGED <<strategy, backends, clients, sess, locks, stat, sock, rly>>

\* The iteration goes on (lines 85-96): lock the backend taken and test its
\* maintenance flag; return it, or go to the next iteration.
RoundRobinStep ==
    /\ lpc = "rr_lock"
    /\ LET b == lcl.idx IN
         /\ Enters(ListenerThread, b)
         /\ locks' = Unlocked(Locked(locks, b, ListenerThread), b)
         /\ IF Eligible(backends[b])
              THEN /\ lpc' = "returned"
                   /\ lcl' = [lcl EXCEPT !.result = b]
              ELSE /\ lpc' = "round_robin"
                   /\ lcl' = [lcl EXCEPT !.iter = @ + 1]
    /\ UNCHANGED <<strategy, backends, current, clients, sess, stat, sock,
                   rly>>

\* round_robin after n iterations without a return: None.
RoundRobinNone ==
    /\ lpc = "round_robin"
    /\ lcl.iter = RRScanLimit(N)
    /\ lpc' = "returned"
    /\ lcl' = [lcl EXCEPT !.result = 0]
    /\ UNCHANGED <<strategy, backends, current, clients, sess, locks, stat,
                   sock, rly>>

\* least_connections, the filter closure on the next element of the
\* iterator: lock it, read maintenance, unlock.  keys records what the call
\* has read so far (-1 for a filtered-out backend).
LcFilter ==
    /\ lpc = "least_connections"
    /\ lcl.idx <= N
    /\ Enters(ListenerThread, lcl.idx)
    /\ locks' = Unlocked(Locked(locks, lcl.idx, ListenerThread), lcl.idx)
    /\ IF Eligible(backends[lcl.idx])
         THEN /\ lpc' = "lc_key"
              /\ lcl' = lcl
         ELSE /\ lpc' = "least_connections"
              /\ lcl' = [lcl EXCEPT !.idx = @ + 1, !.keys = Append(@, -1)]
    /\ UNCHANGED <<strategy, backends, current, clients, sess, stat, sock, rly>>

\* least_connections, the key closure on an element that passed the filter:
\* lock it again, read active_connections, unlock; min_by_key's comparison.
LcKey ==
    /\ lpc = "lc_key"
    /\ Enters(ListenerThread, lcl.idx)
    /\ locks' = Unlocked(Locked(locks, lcl.idx, ListenerThread), lcl.idx)
    /\ LET key == backends[lcl.idx].active_connections
           better == LcBetter(key, lcl.best, lcl.bestKey) IN
         lcl' = [lcl EXCEPT !.idx = @ + 1,
                            !.keys = Append(@, key),
                            !.best = IF better THEN lcl.idx ELSE @,
                            !.bestKey = IF better THEN key ELSE @]
    /\ lpc' = "least_connections"
    /\ UNCHANGED <<strategy, backends, current, clients, sess, stat, sock, rly>>

\* least_connections, the iterator is exhausted: .cloned() of the minimum.
LcReturn ==
    /\ lpc = "least_connections"
    /\ lcl.idx = N + 1
    /\ lpc' = "returned"
    /\ lcl' = [lcl EXCEPT !.result = lcl.best]
    /\ UNCHANGED <<strategy, backends, current, clients, sess, locks, stat,
                   sock, rly>>

----------------------------------------------------------------------------
(* The listener loop: run_load_balancer *)

\* log_status, one iteration of its loop: lock the backend, log its four
\* fields, drop the guard at the end of the loop body.
LogStatusStep ==
    /\ lpc = "log_status"
    /\ lcl.idx <= N
    /\ Enters(ListenerThread, lcl.idx)
    /\ locks' = Unlocked(Locked(locks, lcl.idx, ListenerThread), lcl.idx)
    /\ lcl' = [lcl EXCEPT !.idx = @ + 1]
    /\ UNCHANGED <<strategy, backends, current, lpc, clients, sess, stat,
                   sock, rly>>

\* thread::spawn(f) returns the handle of a new thread, or panics in the
\* calling thread when the OS cannot create one (it unwraps the result of
\* Builder::spawn): the value with the new thread, or the value after the
\* panic.
Spawned(ok, started, panicked) == IF ok THEN started ELSE panicked

\* log_status returns; lines 333-344 spawn the status thread, which starts
\* with its 30 s sleep; the listener enters its accept loop.  When the spawn
\* panics the listener thread is dead: it accepts no client any more.
LogStatusReturn ==
    /\ lpc = "log_status"
    /\ lcl.idx = N + 1
    /\ \E ok \in BOOLEAN :
         /\ stat' = [stat EXCEPT !.pc = Spawned(ok, "sleep", @)]
         /\ lpc' = Spawned(ok, "accept", "dead")
    /\ lcl' = NoCall
    /\ UNCHANGED <<strategy, backends, current, clients, sess, locks, sock,
                   rly>>

\* A None branch that writes nothing.
Write503Skipped(ok) == "none"

\* What the write of the 503 response leaves behind: write_all succeeded, or
\* failed (the failure is logged and the socket is shut down all the same).
Write503(ok) == IF ok THEN "sent" ELSE "failed"

\* `if let Some(backend) = lb.next_backend()`: spawn a thread that runs
\* handle_client(client, backend); the loop goes on to the next client.
\* When the spawn panics no handler runs (the client's stream is dropped
\* with the closure) and the listener thread is dead.
Dispatch ==
    /\ lpc = "returned"
    /\ lcl.result # 0
    /\ \E ok \in BOOLEAN :
         /\ sess' = [sess EXCEPT ![lcl.client] =
                        Spawned(ok, [NoSession EXCEPT !.pc = "start",
                                                      !.backend = lcl.result],
                                @)]
         /\ clients' = [clients EXCEPT ![lcl.client].result = lcl.result,
                                       ![lcl.client].spawned = ok]
         /\ lpc' = Spawned(ok, "accept", "dead")
    /\ lcl' = NoCall
    /\ UNCHANGED <<strategy, backends, current, locks, stat, sock, rly>>

\* The else branch: write the 503 response, shut the client socket down.
Reject ==
    /\ lpc = "returned"
    /\ lcl.result = 0
    /\ \E ok \in BOOLEAN :
         clients' = [clients EXCEPT ![lcl.client].result = 0,
                                    ![lcl.client].resp503 = Write503(ok),
                                    ![lcl.client].shutdown = TRUE]
    /\ lpc' = "accept"
    /\ lcl' = NoCall
    /\ UNCHANGED <<strategy, backends, current, sess, locks, stat, sock, rly>>

----------------------------------------------------------------------------
(* The connection forwarder: handle_client and forward *)

\* An assignment that leaves total_handled alone.
AssignActiveOnly(be) == [be EXCEPT !.active_connections = @ + 1]

\* An assignment that leaves active_connections alone.
AssignTotalOnly(be) == [be EXCEPT !.total_handled = @ + 1]

\* The assignment critical section: both counters go up by one.
AssignBackend(be) ==
    [be EXCEPT !.active_connections = @ + 1, !.total_handled = @ + 1]

\* An id taken from the other counter.
ConnectionIdFromActive(be) == be.active_connections

\* `let connection_id = be.total_handled`, read in the same critical
\* section, after the increments.
ConnectionId(be) == be.total_handled

\* `be.active_connections -= 1` on a usize holding a: a - 1 when a > 0.  At
\* a = 0 the subtraction overflows: the thread panics (overflow checks on,
\* the default of a debug build) or the counter wraps to usize::MAX
\* (overflow checks off, the default of a release build).
Decrement(a) ==
    IF a > 0
       THEN {[panic |-> FALSE, value |-> a - 1]}
       ELSE {[panic |-> TRUE, value |-> a],
             [panic |-> FALSE, value |-> UsizeMax]}

\* An Err arm that returns without the release.
NoReleaseOnConnectError(be) ==
    {[panic |-> FALSE, value |-> be.active_connections]}

\* The Err arm of TcpStream::connect: the release it performs on the backend.
ReleaseOnConnectError(be) == Decrement(be.active_connections)

\* A release after each of the two joins.
ReleasePerJoin(be) ==
    UNION {IF o.panic THEN {o} ELSE Decrement(o.value) :
              o \in Decrement(be.active_connections)}

\* The release after both joins.
ReleaseAfterJoin(be) == Decrement(be.active_connections)

\* How a turn of the loop of forward that leaves the loop ends the thread:
\* forward returns () on each of its three breaks; the thread's state keeps
\* whether it was the end of the stream or an error.
ExitOf(r) == IF r = "eof" THEN "eof" ELSE "err"

\* A relay thread has left the loop of forward and terminated.
Ended(t) == t \in {"eof", "err"}

\* Only the first join.
JoinedFirstOnly(s) == Ended(s.t1)

\* `t1.join(); t2.join();` has returned: both relay threads have terminated.
Joined(s) == Ended(s.t1) /\ Ended(s.t2)

\* The state of session s after a release with outcome out: the call
\* returns ret, or the thread dies in a panic (with the backend's lock held,
\* which poisons the mutex).  The locals t1 and t2 are consumed by the joins.
AfterRelease(s, out, ret) ==
    IF out.panic
       THEN [s EXCEPT !.pc = "panicked"]
       ELSE [s EXCEPT !.pc = "done", !.ret = ret, !.released = @ + 1,
                      !.t1 = IF Ended(@) THEN "joined" ELSE @,
                      !.t2 = IF Ended(@) THEN "joined" ELSE @]

\* The block of lines 136-142 ends before TcpStream::connect is called: its
\* guard `be` is dropped there.
AssignScopeEnd(lk, b) == Unlocked(lk, b)

\* lines 136-142: lock the backend, increment both counters, take the id.
Assign(c) ==
    /\ sess[c].pc = "start"
    /\ LET b == sess[c].backend
           be == AssignBackend(backends[b]) IN
         /\ Enters(c, b)
         /\ locks' = AssignScopeEnd(Locked(locks, b, c), b)
         /\ backends' = [backends EXCEPT ![b] = be]
         /\ sess' = [sess EXCEPT ![c].pc = "connect",
                                 ![c].id = ConnectionId(be)]
    /\ UNCHANGED <<strategy, current, lpc, lcl, clients, stat, sock, rly>>

\* line 151: TcpStream::connect(&backend_addr) succeeds or fails.
Connect(c) ==
    /\ sess[c].pc = "connect"
    /\ \E ok \in BOOLEAN :
         sess' = [sess EXCEPT ![c].pc = IF ok THEN "clone" ELSE "connect_err"]
    /\ UNCHANGED <<strategy, backends, current, lpc, lcl, clients, locks,
                   stat, sock, rly>>

\* lines 153-163: the Err arm: lock, decrement, return Err(e).
ConnectError(c) ==
    /\ sess[c].pc = "connect_err"
    /\ LET b == sess[c].backend IN
         /\ Enters(c, b)
         /\ locks' = Unlocked(Locked(locks, b, c), b)
         /\ \E out \in ReleaseOnConnectError(backends[b]) :
            /\ backends' = [backends EXCEPT ![b].active_connections = out.value]
            /\ sess' = [sess EXCEPT ![c] = AfterRelease(@, out, "err_connect")]
    /\ UNCHANGED <<strategy, current, lpc, lcl, clients, stat, sock, rly>>

\* lines 171-189: client.try_clone()? and server.try_clone()? each return
\* the error from handle_client at once when they fail; when both succeed
\* relay thread t1 (client -> backend) is spawned.  When that spawn panics
\* the handler thread is dead: it returns nothing and releases nothing.
StartRelay(c) ==
    /\ sess[c].pc = "clone"
    /\ \E r \in {"ok", "err_client_clone", "err_server_clone", "panic_spawn"} :
         sess' = [sess EXCEPT ![c] =
                    IF r \in {"ok", "panic_spawn"}
                       THEN [@ EXCEPT
                               !.pc = Spawned(r = "ok", "spawn_t2", "panicked"),
                               !.t1 = Spawned(r = "ok", "running", @),
                               !.ret = Spawned(r = "ok", @, r)]
                       ELSE [@ EXCEPT !.pc = "done", !.ret = r]]
    /\ UNCHANGED <<strategy, backends, current, lpc, lcl, clients, locks, stat,
                   sock, rly>>

\* lines 191-201: relay thread t2 (backend -> client) is spawned, while t1
\* is running already.  When this spawn panics the handler thread is dead
\* and t1, whose handle is dropped, runs on detached.
SpawnT2(c) ==
    /\ sess[c].pc = "spawn_t2"
    /\ \E ok \in BOOLEAN :
         sess' = [sess EXCEPT ![c] =
                    [@ EXCEPT !.pc = Spawned(ok, "relay", "panicked"),
                              !.t2 = Spawned(ok, "running", @),
                              !.ret = Spawned(ok, @, "panic_spawn")]]
    /\ UNCHANGED <<strategy, backends, current, lpc, lcl, clients, locks, stat,
                   sock, rly>>

\* The relay thread client->backend leaves the loop of forward: the read
\* returned Ok(0), the read failed, or write_all to the backend socket
\* failed.  (A turn that relays a chunk to the backend socket and stays in
\* the loop changes nothing the model keeps.)
ForwardT1(c) ==
    /\ sess[c].t1 = "running"
    /\ \E r \in {"eof", "read_err", "write_err"} :
         sess' = [sess EXCEPT ![c].t1 = ExitOf(r)]
    /\ UNCHANGED <<strategy, backends, current, lpc, lcl, clients, locks, stat,
                   sock, rly>>

\* One turn of the loop of forward in the relay thread backend->client:
\* read a chunk and write it to the client socket, or leave the loop.
ForwardT2(c) ==
    /\ sess[c].t2 = "running"
    /\ \E r \in {"chunk", "eof", "read_err", "write_err"} :
         IF r = "chunk"
            THEN /\ clients[c].toClient < MaxChunks
                 /\ clients' = [clients EXCEPT ![c].toClient = @ + 1]
                 /\ sess' = sess
            ELSE /\ sess' = [sess EXCEPT ![c].t2 = ExitOf(r)]
                 /\ clients' = clients
    /\ UNCHANGED <<strategy, backends, current, lpc, lcl, locks, stat, sock,
                   rly>>

\* lines 203-220: after both joins: lock, decrement, return Ok(()).
FinalRelease(c) ==
    /\ sess[c].pc = "relay"
    /\ Joined(sess[c])
    /\ LET b == sess[c].backend IN
         /\ Enters(c, b)
         /\ locks' = Unlocked(Locked(locks, b, c), b)
         /\ \E out \in ReleaseAfterJoin(backends[b]) :
            /\ backends' = [backends EXCEPT ![b].active_connections = out.value]
            /\ sess' = [sess EXCEPT ![c] = AfterRelease(@, out, "ok")]
    /\ UNCHANGED <<strategy, current, lpc, lcl, clients, stat, sock, rly>>

----------------------------------------------------------------------------
Next ==
    \/ LogStatusStep
    \/ LogStatusReturn
    \/ \E c \in ClientIds : Accept(c)
    \/ NextBackend
    \/ RoundRobinTake
    \/ RoundRobinStep
    \/ RoundRobinNone
    \/ LcFilter
    \/ LcKey
    \/ LcReturn
    \/ Dispatch
    \/ Reject
    \/ \E c \in ClientIds : Assign(c)
    \/ \E c \in ClientIds : Connect(c)
    \/ \E c \in ClientIds : ConnectError(c)
    \/ \E c \in ClientIds : StartRelay(c)
    \/ \E c \in ClientIds : SpawnT2(c)
    \/ \E c \in ClientIds : ForwardT1(c)
    \/ \E c \in ClientIds : ForwardT2(c)
    \/ \E c \in ClientIds : FinalRelease(c)

Spec == Init /\ [][Next]_vars

----------------------------------------------------------------------------
(* The locks step by step.  SpecLocks runs the same threads with the      *)
(* lock() call of every critical section as a step of its own, so that a    *)
(* thread holds its lock across steps of the others and a thread that      *)
(* wants a held lock waits; and it runs the periodic status thread.        *)

\* The clients that connect in SpecLocks.
MaxLockClients == 2

\* The backend whose mutex thread t locks next, 0 when its next step is not
\* a lock() call: the handler before its assignment (line 137), in the Err
\* arm of connect (line 159) and after both joins (line 209); the listener
\* in log_status (line 117), round_robin (line 85) and the two closures of
\* least_connections (lines 105, 106); the status thread in its loop
\* (line 338).
Wants(t) ==
    IF t \in ClientIds
       THEN IF \/ sess[t].pc \in {"start", "connect_err"}
               \/ sess[t].pc = "relay" /\ Joined(sess[t])
               THEN sess[t].backend
               ELSE 0
    ELSE IF t = ListenerThread
       THEN IF lpc = "rr_lock"
               THEN lcl.idx
            ELSE IF lpc \in {"log_status", "least_connections", "lc_key"}
                    /\ lcl.idx <= N
               THEN lcl.idx
               ELSE 0
    ELSE IF stat.pc = "iter" THEN stat.idx ELSE 0

\* `backend.lock().unwrap()` as a step: thread t gets the mutex when it is
\* free, and waits (the step is not enabled) while another thread holds it.
Acquire(t) ==
    /\ Wants(t) # 0
    /\ locks[Wants(t)] = 0
    /\ locks' = Locked(locks, Wants(t), t)
    /\ UNCHANGED <<strategy, backends, current, lpc, lcl, clients, sess,
                   stat, sock, rly>>

\* The status thread wakes from thread::sleep and enters its for loop (over
\* an empty pool the loop ends at once and the thread sleeps again).
StatusWake ==
    /\ stat.pc = "sleep"
    /\ N # 0
    /\ stat' = [stat EXCEPT !.pc = "iter", !.idx = 1]
    /\ UNCHANGED <<strategy, backends, current, lpc, lcl, clients, sess,
                   locks, sock, rly>>

\* One iteration of the status thread's loop: lock backend idx, log its
\* fields, drop the guard at the end of the loop body; then the next
\* backend, or the sleep.
StatusRead ==
    /\ stat.pc = "iter"
    /\ Enters(StatusThread, stat.idx)
    /\ locks' = Unlocked(Locked(locks, stat.idx, StatusThread), stat.idx)
    /\ stat' = IF stat.idx < N
                  THEN [stat EXCEPT !.idx = @ + 1]
                  ELSE [stat EXCEPT !.pc = "sleep", !.idx = 0]
    /\ UNCHANGED <<strategy, backends, current, lpc, lcl, clients, sess,
                   sock, rly>>

\* The accept of SpecLocks: MaxLockClients clients connect in all.
AcceptLock(c) == c <= MaxLockClients /\ Accept(c)

NextLocks ==
    \/ LogStatusStep
    \/ LogStatusReturn
    \/ \E c \in ClientIds : AcceptLock(c)
    \/ NextBackend
    \/ RoundRobinTake
    \/ RoundRobinStep
    \/ RoundRobinNone
    \/ LcFilter
    \/ LcKey
    \/ LcReturn
    \/ Dispatch
    \/ Reject
    \/ \E c \in ClientIds : Assign(c)
    \/ \E c \in ClientIds : Connect(c)
    \/ \E c \in ClientIds : ConnectError(c)
    \/ \E c \in ClientIds : StartRelay(c)
    \/ \E c \in ClientIds : SpawnT2(c)
    \/ \E c \in ClientIds : ForwardT1(c)
    \/ \E c \in ClientIds : ForwardT2(c)
    \/ \E c \in ClientIds : FinalRelease(c)
    \/ \E t \in Threads : Acquire(t)
    \/ StatusWake
    \/ StatusRead

SpecLocks == Init /\ [][NextLocks]_vars

\* The steps of the listener thread other than the accept itself (which
\* waits for a client to connect).
ListenerStep ==
    \/ LogStatusStep
    \/ LogStatusReturn
    \/ NextBackend
    \/ RoundRobinTake
    \/ RoundRobinStep
    \/ RoundRobinNone
    \/ LcFilter
    \/ LcKey
    \/ LcReturn
    \/ Dispatch
    \/ Reject
    \/ Acquire(ListenerThread)

\* The step in which thread t leaves the critical section it is in.
Leaves(t) ==
    IF t \in ClientIds
       THEN Assign(t) \/ ConnectError(t) \/ FinalRelease(t)
    ELSE IF t = ListenerThread
       THEN LogStatusStep \/ RoundRobinStep \/ LcFilter \/ LcKey
    ELSE StatusRead

\* SpecLocks with the scheduling the threads get: a thread inside a critical
\* section runs on to its end (nothing in one blocks), and the listener gets
\* a lock it waits for once it is free often enough (whoever dropped it
\* goes on to another backend, to a socket or to sleep).  Nothing is
\* assumed of connect or of the relay threads: a session may stay in them
\* forever.
SpecLocksFair ==
    /\ SpecLocks
    /\ SF_vars(ListenerStep)
    /\ \A t \in ClientIds \cup {StatusThread} : WF_vars(Leaves(t))

----------------------------------------------------------------------------
(* The relay byte by byte.  SpecRelay runs one handle_client call from its  *)
(* start, with the two peers as part of the state: each sends bytes, shuts  *)
(* its sending side down or fails at any moment, and the two relay threads  *)
(* run the loop of forward on what arrives.                                 *)

\* The bytes a peer sends in all.
MaxBytes == 3

\* `let mut buffer = [0; 4096]`: the most one read returns.
BufSize == 4096

Min(a, b) == IF a < b THEN a ELSE b

Src(d) == IF d = "c2b" THEN "client" ELSE "backend"
Dst(d) == IF d = "c2b" THEN "backend" ELSE "client"
Other(d) == IF d = "c2b" THEN "b2c" ELSE "c2b"

\* The relay thread of direction d in session record s, and s with that
\* thread in state t.
ThreadOf(s, d) == IF d = "c2b" THEN s.t1 ELSE s.t2
WithThread(s, d, t) == IF d = "c2b" THEN [s EXCEPT !.t1 = t]
                                     ELSE [s EXCEPT !.t2 = t]

\* One stream shared by both relay threads: closed as soon as one of them
\* returns.
SharedHandles(s) ==
    IF s.t1 = "running" /\ s.t2 = "running" THEN 2 ELSE 0

\* The open handles of each of the two sockets of session s during the
\* relay.  client.try_clone() and server.try_clone() (lines 171-172) give
\* each relay thread a handle of its own on both sockets; forward drops its
\* two handles when it returns, and a socket is closed when its last handle
\* is dropped.  Between the two spawns the handler still holds the pair that
\* the closure of t2 will take (server, client_clone).
OpenHandles(s) ==
    Cardinality({d \in Directions : ThreadOf(s, d) = "running"})
       + (IF s.pc = "spawn_t2" THEN 1 ELSE 0)

\* The bytes peer p has sent so far, and those of them direction d has not
\* read yet.
Stream(p) == [i \in 1..sock[p].sent |-> i]
Unread(d) == sock[Src(d)].sent - Len(rly[d].rd)

\* from.read(&mut buffer) returns Ok(n): the next n unread bytes.
ReadChunk(d, n) ==
    SubSeq(Stream(Src(d)), Len(rly[d].rd) + 1, Len(rly[d].rd) + n)

\* A single write that stops after the first byte and is taken for complete.
WriteShort(chunk, k) == SubSeq(chunk, 1, Min(k, 1))

\* to.write_all(&buffer[..n]): a write puts the first k bytes of what is
\* left of the chunk on the destination socket, and write_all goes on with
\* the rest until nothing is left.
WriteAll(chunk, k) == SubSeq(chunk, 1, k)
RestOf(chunk, k) == SubSeq(chunk, k + 1, Len(chunk))

\* A backend is connected to session c.
Connected(c) ==
    \/ sess[c].pc \in {"clone", "spawn_t2", "relay"}
    \/ sess[c].t1 = "running"
    \/ sess[c].t2 = "running"

\* Peer p acts on its socket (the backend once it is connected).
PeerActs(p) == p = "backend" => \E c \in ClientIds : Connected(c)

\* Peer p sends one more byte.
PeerSend(p) ==
    /\ sock[p].st = "open"
    /\ sock[p].sent < MaxBytes
    /\ PeerActs(p)
    /\ sock' = [sock EXCEPT ![p].sent = @ + 1]
    /\ UNCHANGED <<strategy, backends, current, lpc, lcl, clients, sess, locks,
                   stat, rly>>

\* Peer p shuts its sending side down: the balancer reads the end of the
\* stream once it has read what was sent.  The peer may go on reading, or
\* not.
PeerFin(p) ==
    /\ sock[p].st = "open"
    /\ PeerActs(p)
    /\ sock' = [sock EXCEPT ![p].st = "fin", ![p].fin = TRUE]
    /\ UNCHANGED <<strategy, backends, current, lpc, lcl, clients, sess, locks,
                   stat, rly>>

\* Peer p closes its socket: the balancer reads the end of the stream as
\* after a shutdown, and bytes written to the peer are answered by a reset.
PeerClose(p) ==
    /\ sock[p].st \in {"open", "fin"}
    /\ PeerActs(p)
    /\ sock' = [sock EXCEPT ![p].st = "closed", ![p].fin = TRUE]
    /\ UNCHANGED <<strategy, backends, current, lpc, lcl, clients, sess, locks,
                   stat, rly>>

\* Peer p fails: the connection is reset, after the end of its stream if it
\* had shut its sending side down.
PeerReset(p) ==
    /\ sock[p].st \in {"open", "fin"}
    /\ PeerActs(p)
    /\ sock' = [sock EXCEPT ![p].st = "reset", ![p].err = TRUE]
    /\ UNCHANGED <<strategy, backends, current, lpc, lcl, clients, sess, locks,
                   stat, rly>>

\* The relay thread of direction d is in from.read, at the top of the loop.
Reading(c, d) == ThreadOf(sess[c], d) = "running" /\ rly[d].buf = <<>>

\* The relay thread of direction d is in to.write_all.
Writing(c, d) == ThreadOf(sess[c], d) = "running" /\ rly[d].buf # <<>>

\* from.read(&mut buffer) returns Ok(n), n > 0: bytes that have arrived are
\* read, also after the source has shut down, closed or been reset behind
\* them.  The thread goes on to write_all.
ForwardRead(c, d) ==
    /\ Reading(c, d)
    /\ OpenHandles(sess[c]) > 0
    /\ \E n \in 1..Min(Unread(d), BufSize) :
         LET chunk == ReadChunk(d, n) IN
           rly' = [rly EXCEPT ![d].rd = @ \o chunk, ![d].buf = chunk]
    /\ UNCHANGED <<strategy, backends, current, lpc, lcl, clients, sess, locks,
                   stat, sock>>

\* to.write_all makes progress: the destination socket takes the next k
\* bytes; when none is left write_all returns Ok and the thread is back at
\* the read.  While the destination does not read, the thread waits here.
\* Bytes written to a peer that has closed are answered by a reset.
ForwardWrite(c, d) ==
    /\ Writing(c, d)
    /\ OpenHandles(sess[c]) > 0
    /\ sock[Dst(d)].st # "reset"
    /\ \E k \in 1..Len(rly[d].buf) :
         rly' = [rly EXCEPT ![d].wr = @ \o WriteAll(rly[d].buf, k),
                            ![d].buf = RestOf(@, k)]
    /\ sock' = IF sock[Dst(d)].st = "closed"
                  THEN [sock EXCEPT ![Dst(d)].st = "reset", ![Dst(d)].err = TRUE]
                  ELSE sock
    /\ UNCHANGED <<strategy, backends, current, lpc, lcl, clients, sess, locks,
                   stat>>

\* from.read on the socket of peer p, with nothing left to read, returns
\* Ok(0): the end of the peer's stream has arrived (a reset that came after
\* it does not change that), or the connection is reset and the error it
\* left has been returned already (to the failed write of the other relay
\* thread).
ReadsEof(p) == sock[p].fin \/ (sock[p].st = "reset" /\ ~sock[p].err)

\* from.read on the socket of peer p, with nothing left to read, returns
\* Err: the connection is reset with no end of stream before it, and this
\* read is the first operation to meet the error.
ReadsErr(p) == sock[p].st = "reset" /\ ~sock[p].fin /\ sock[p].err

\* The sockets once a failed read or write on the socket of peer p has
\* returned the error a reset had left on it.
ErrTaken(s, p) == [s EXCEPT ![p].err = FALSE]

\* The loop of forward in direction d is left: read returns Ok(0), read
\* returns Err, or write_all returns Err (the connection of the destination
\* is reset, or the socket is closed) with the rest of the chunk unwritten.
\* Bytes that arrived before the end of the stream or the reset are read
\* first.
ForwardExit(c, d) ==
    /\ ThreadOf(sess[c], d) = "running"
    /\ \E r \in {"eof", "read_err", "write_err"} :
         /\ sess' = [sess EXCEPT ![c] = WithThread(@, d, ExitOf(r))]
         /\ IF r = "eof"
               THEN /\ Reading(c, d)
                    /\ OpenHandles(sess[c]) > 0
                    /\ ReadsEof(Src(d))
                    /\ Unread(d) = 0
                    /\ sock' = sock
            ELSE IF r = "read_err"
               THEN /\ Reading(c, d)
                    /\ \/ ReadsErr(Src(d)) /\ Unread(d) = 0
                       \/ OpenHandles(sess[c]) = 0
                    /\ sock' = ErrTaken(sock, Src(d))
               ELSE /\ Writing(c, d)
                    /\ sock[Dst(d)].st = "reset" \/ OpenHandles(sess[c]) = 0
                    /\ sock' = ErrTaken(sock, Dst(d))
         /\ rly' = [rly EXCEPT ![d].buf = <<>>]
    /\ UNCHANGED <<strategy, backends, current, lpc, lcl, clients, locks,
                   stat>>

\* handle_client(client, backend) has been called for client 1 on a backend
\* of a fresh pool; neither peer has sent anything yet.
InitRelay ==
    /\ strategy \in Strategies
    /\ \E n \in 1..MaxBackends : backends = [i \in 1..n |-> NewBackend(i, FALSE)]
    /\ current = 0
    /\ lpc = "accept"
    /\ lcl = NoCall
    /\ locks = [i \in Pool |-> 0]
    /\ stat = [NoStatusThread EXCEPT !.pc = "sleep"]
    /\ sock = NoSockets
    /\ rly = NoRelay
    /\ \E b \in Pool :
         /\ clients = [c \in ClientIds |->
                          IF c = 1
                             THEN [NoClient EXCEPT !.accepted = TRUE,
                                                   !.result = b,
                                                   !.spawned = TRUE]
                             ELSE NoClient]
         /\ sess = [c \in ClientIds |->
                       IF c = 1
                          THEN [NoSession EXCEPT !.pc = "start", !.backend = b]
                          ELSE NoSession]

NextRelay ==
    \/ \E c \in ClientIds : Assign(c)
    \/ \E c \in ClientIds : Connect(c)
    \/ \E c \in ClientIds : ConnectError(c)
    \/ \E c \in ClientIds : StartRelay(c)
    \/ \E c \in ClientIds : SpawnT2(c)
    \/ \E c \in ClientIds : \E d \in Directions : ForwardRead(c, d)
    \/ \E c \in ClientIds : \E d \in Directions : ForwardWrite(c, d)
    \/ \E c \in ClientIds : \E d \in Directions : ForwardExit(c, d)
    \/ \E c \in ClientIds : FinalRelease(c)
    \/ \E p \in Peers : PeerSend(p)
    \/ \E p \in Peers : PeerFin(p)
    \/ \E p \in Peers : PeerClose(p)
    \/ \E p \in Peers : PeerReset(p)

SpecRelay == InitRelay /\ [][NextRelay]_vars

\* A step of the handle_client thread of client c.
HandlerStep(c) ==
    \/ Assign(c)
    \/ Connect(c)
    \/ ConnectError(c)
    \/ StartRelay(c)
    \/ SpawnT2(c)
    \/ FinalRelease(c)

\* A step of the relay thread of direction d in which a call returns: a
\* read that has bytes, the end of the stream or an error to return, and a
\* write_all that returns an error.
ForwardReturns(c, d) == ForwardRead(c, d) \/ ForwardExit(c, d)

\* A write to a peer that has closed its socket: it does not wait for the
\* peer to read.
WriteToClosed(c, d) == sock[Dst(d)].st = "closed" /\ ForwardWrite(c, d)

\* SpecRelay under fair scheduling of the handler thread and of the two
\* relay threads: a thread that is not blocked takes its step.  A read on a
\* source that is open and has sent nothing more is blocked (no step is
\* enabled); a write_all to a peer that is there and does not read is
\* blocked for as long as the peer wishes (no fairness on ForwardWrite
\* unless the peer has closed).  Nothing is assumed of the peers.
SpecRelayFair ==
    /\ SpecRelay
    /\ \A c \in ClientIds :
          /\ WF_vars(HandlerStep(c))
          /\ \A d \in Directions :
                /\ WF_vars(ForwardReturns(c, d))
                /\ WF_vars(WriteToClosed(c, d))

----------------------------------------------------------------------------
(* Notions the properties below are stated with *)

\* The sessions that have run their assignment step on backend b and have
\* not returned.
Holding(b) ==
    {c \in ClientIds : sess[c].backend = b /\
        sess[c].pc \in {"connect", "connect_err", "clone", "spawn_t2", "relay"}}

\* The sessions on backend b whose handler thread died in thread::spawn.
DiedInSpawn(b) ==
    {c \in ClientIds : sess[c].backend = b /\ sess[c].pc = "panicked" /\
        sess[c].ret = "panic_spawn"}

\* The sessions on backend b that returned through a failed try_clone.
ReturnedOnCloneError(b) ==
    {c \in ClientIds : sess[c].backend = b /\ sess[c].pc = "done" /\
        sess[c].ret \in {"err_client_clone", "err_server_clone"}}

\* The sessions that have run their assignment step on backend b.
AssignedTo(b) == {c \in ClientIds : sess[c].backend = b /\ sess[c].id # 0}

\* The clients next_backend has answered for, and the answers.
Answered == {c \in ClientIds : clients[c].result >= 0}

EligibleSet == {i \in Pool : Eligible(backends[i])}

NoHandlerRunning == \A c \in ClientIds : sess[c].pc \in {"none", "done"}

\* Session c takes the step from pc value p to pc value q.
Moves(c, p, q) == sess[c].pc = p /\ sess'[c].pc = q

----------------------------------------------------------------------------
(* C1 *)

\* C1 (as claimed): every handle_client call that has run its assignment
\* step performs exactly one decrement before it returns, on every exit
\* path, so whenever no handle_client call is in progress every backend's
\* active_connections is 0.
C1_ReleasedOnEveryExit ==
    /\ \A c \in ClientIds : sess[c].pc = "done" => sess[c].released = 1
    /\ NoHandlerRunning => \A b \in Pool : backends[b].active_connections = 0

----------------------------------------------------------------------------
(* C2 *)

\* The minimum of active_connections over the non-maintenance backends, as
\* the counters stand in the state.
IsMinIn(bs, r) ==
    /\ r \in DOMAIN bs
    /\ Eligible(bs[r])
    /\ \A i \in DOMAIN bs :
          Eligible(bs[i]) => bs[r].active_connections <= bs[i].active_connections

IsMinNow(r) == IsMinIn(backends, r)

\* C2 (as claimed): at the moment a least_connections call returns, the
\* backend it returns holds the minimum active_connections of all
\* non-maintenance backends, whatever the handler threads did during the
\* call.
C2_MinAtReturn ==
    [][(lpc = "least_connections" /\ lpc' = "returned" /\ EligibleSet # {})
         => IsMinIn(backends', lcl'.result)]_vars

\* C2 (amended): a least_connections call returns a non-maintenance backend
\* whose active_connections, as the call read it under that backend's lock,
\* is the minimum of the values the call read for the non-maintenance
\* backends (read one after the other, each under its own lock); when the
\* values read still stand at the return, it is the minimum at that moment.
C2_MinOfValuesRead ==
    (lpc = "returned" /\ strategy = "LeastConnections" /\ N > 0) =>
        LET r == lcl.result
            keys == lcl.keys IN
        /\ Len(keys) = N
        /\ \A i \in Pool : keys[i] >= 0 <=> Eligible(backends[i])
        /\ r = 0 <=> EligibleSet = {}
        /\ r # 0 =>
             /\ r \in EligibleSet
             /\ \A i \in EligibleSet : keys[r] <= keys[i]
             /\ (\A i \in EligibleSet :
                     keys[i] = backends[i].active_connections) => IsMinNow(r)

\* A least_connections call has returned a backend that, by the time of the
\* return, holds more connections than another eligible backend.
C2_Witness ==
    /\ lpc = "returned" /\ strategy = "LeastConnections"
    /\ lcl.result # 0
    /\ \E i \in EligibleSet :
          backends[i].active_connections
              < backends[lcl.result].active_connections

----------------------------------------------------------------------------
(* C3 *)

AllHealthy == \A i \in Pool : ~backends[i].maintenance

\* C3: round-robin over a non-empty pool with no backend in maintenance:
\* the first call returns the backend at index 0, any n consecutive calls
\* return n different backends (each backend once), and call k+n returns
\* what call k returned, however the handler threads interleave.
C3_RoundRobinRotation ==
    (strategy = "RoundRobin" /\ N > 0 /\ AllHealthy) =>
        /\ 1 \in Answered => clients[1].result = 1
        /\ \A k \in Answered : clients[k].result \in Pool
        /\ \A k \in Answered : \A j \in Answered :
              (k < j /\ j < k + N) => clients[k].result # clients[j].result
        /\ \A k \in Answered :
              (k + N) \in Answered => clients[k + N].result = clients[k].result

\* Three calls on a healthy pool of two, the third while a handler thread
\* of an earlier one is relaying.
C3_Witness ==
    /\ strategy = "RoundRobin" /\ N = 2 /\ AllHealthy
    /\ Answered = {1, 2, 3}
    /\ \E c \in ClientIds : sess[c].pc = "relay"

----------------------------------------------------------------------------
(* C4 *)

\* The pool [A, B(maintenance), C] of the example.
ExamplePool ==
    /\ N = 3
    /\ ~backends[1].maintenance
    /\ backends[2].maintenance
    /\ ~backends[3].maintenance

\* A step of round_robin that examines a backend in maintenance.
RRExaminesMaintenance ==
    /\ lpc = "rr_lock"
    /\ backends[lcl.idx].maintenance
    /\ lcl' # lcl

\* C4: round-robin never returns a backend in maintenance; a backend in
\* maintenance that is examined is skipped (the scan goes on) and the
\* cursor still moves one place (it has moved when the backend is examined,
\* and stays there); on the pool [A, B(maintenance), C] from
\* cursor 0 the calls return A, C, A, ...
C4_RoundRobinSkipsMaintenance ==
    /\ [](strategy = "RoundRobin" =>
            /\ \A c \in Answered :
                  clients[c].result # 0 =>
                      ~backends[clients[c].result].maintenance
            /\ (lpc = "returned" /\ lcl.result # 0) =>
                      ~backends[lcl.result].maintenance
            /\ ExamplePool =>
                  \A c \in Answered :
                     clients[c].result = IF c % 2 = 1 THEN 1 ELSE 3)
    /\ [](lpc = "rr_lock" => current = lcl.idx % N)
    /\ [][RRExaminesMaintenance =>
            /\ lpc' = "round_robin"
            /\ lcl'.iter = lcl.iter + 1
            /\ current' = lcl.idx % N]_vars

\* On the example pool three calls have been answered, so the backend in
\* maintenance has been examined and skipped.
C4_Witness ==
    /\ strategy = "RoundRobin" /\ ExamplePool
    /\ Answered = {1, 2, 3}
    /\ clients[2].result = 3
    /\ current = 1

----------------------------------------------------------------------------
(* C5 *)

\* The answer r of a next_backend call is right for the pool.
RightAnswer(r) ==
    /\ r = 0 <=> (N = 0 \/ \A i \in Pool : backends[i].maintenance)
    /\ r # 0 => (r \in Pool /\ ~backends[r].maintenance)

\* C5: with either strategy next_backend returns None exactly when the
\* pool is empty or every backend is in maintenance, and otherwise one
\* backend of the pool that is not in maintenance; on an empty pool neither
\* strategy function is entered, so the modulo by the pool size is not
\* evaluated.
C5_NoneIffNoEligibleBackend ==
    /\ lpc = "returned" => RightAnswer(lcl.result)
    /\ \A c \in Answered : RightAnswer(clients[c].result)
    /\ lpc \in {"round_robin", "rr_lock", "least_connections", "lc_key"}
          => N > 0

\* Two calls have answered the only healthy backend of a pool of three.
C5_WitnessSome ==
    /\ lpc = "returned" /\ lcl.client = 2
    /\ N = 3
    /\ backends[1].maintenance /\ backends[2].maintenance
    /\ ~backends[3].maintenance
    /\ clients[1].result = 3
    /\ lcl.result = 3

\* A call has answered None on a non-empty pool that is all in maintenance.
C5_Witness ==
    /\ N = 2 /\ \A i \in Pool : backends[i].maintenance
    /\ Answered = {1, 2}
    /\ clients[2].result = 0

----------------------------------------------------------------------------
(* C6 *)

\* The sessions that are counted in active_connections of backend b: those
\* that hold an assignment, and those that never release: the ones that
\* returned through a failed try_clone and the ones whose handler thread
\* died in thread::spawn.
Counted(b) == Holding(b) \cup ReturnedOnCloneError(b) \cup DiedInSpawn(b)

\* active_connections counts the sessions of Counted; total_handled counts
\* the assignment steps.
CountersAccount ==
    \A b \in Pool :
        /\ backends[b].active_connections = Cardinality(Counted(b))
        /\ backends[b].total_handled = Cardinality(AssignedTo(b))

\* C6: a handle_client call whose backend connect fails returns the error
\* with neither relay thread ever started and nothing written to the
\* client socket; its release takes active_connections down by one (so the
\* call's net change is 0) and leaves total_handled with the increment of
\* the assignment.
C6_ConnectFailureReleases ==
    /\ [](/\ CountersAccount
           /\ \A c \in ClientIds :
                 sess[c].ret = "err_connect" =>
                    /\ sess[c].pc = "done"
                    /\ sess[c].t1 = "idle" /\ sess[c].t2 = "idle"
                    /\ clients[c].toClient = 0
                    /\ clients[c].resp503 = "none"
                    /\ sess[c].released = 1
                    /\ sess[c].id >= 1
                    /\ c \in AssignedTo(sess[c].backend))
    /\ [][\A c \in ClientIds :
             (sess[c].pc = "connect_err" /\ sess'[c] # sess[c]) =>
                LET b == sess[c].backend IN
                /\ sess'[c].ret = "err_connect"
                /\ backends'[b].active_connections
                      = backends[b].active_connections - 1
                /\ backends'[b].total_handled = backends[b].total_handled
                /\ \A i \in Pool : i # b => backends'[i] = backends[i]]_vars

\* A call has returned the connect error while another session of the same
\* backend is still counted.
C6_Witness ==
    \E c \in ClientIds : \E d \in ClientIds :
        /\ sess[c].ret = "err_connect"
        /\ sess[d].pc = "relay" /\ sess[d].backend = sess[c].backend
        /\ backends[sess[c].backend].active_connections = 1
        /\ backends[sess[c].backend].total_handled = 2

----------------------------------------------------------------------------
(* C7 *)

\* Session c performs a release: it leaves one of the two release points.
ReleaseStep(c) ==
    /\ sess[c].pc \in {"connect_err", "relay"}
    /\ sess'[c].pc \in {"done", "panicked"}

----------------------------------------------------------------------------
(* C8 *)

\* C8: the final release comes after both relay directions: the step that
\* returns Ok is taken only when both relay threads have terminated
\* (end-of-stream or error alike), it takes active_connections down by one,
\* and a call returns Ok with exactly one release behind it; so a session
\* with a direction still running has not released and is counted in its
\* backend's active_connections.
C8_ReleaseAfterBothDirections ==
    /\ [](/\ CountersAccount
           /\ \A c \in ClientIds :
                 /\ (sess[c].t1 = "running" \/ sess[c].t2 = "running") =>
                       /\ sess[c].pc \in {"spawn_t2", "relay", "panicked"}
                       /\ sess[c].released = 0
                       /\ c \in Counted(sess[c].backend)
                       /\ backends[sess[c].backend].active_connections >= 1
                 /\ sess[c].ret = "ok" =>
                       /\ sess[c].pc = "done"
                       /\ sess[c].released = 1
                       /\ sess[c].t1 = "joined" /\ sess[c].t2 = "joined")
    /\ [][\A c \in ClientIds :
             Moves(c, "relay", "done") =>
                LET b == sess[c].backend IN
                /\ sess[c].t1 \in {"eof", "err"}
                /\ sess[c].t2 \in {"eof", "err"}
                /\ sess'[c].ret = "ok"
                /\ backends'[b].active_connections
                      = backends[b].active_connections - 1]_vars

\* One session has returned Ok after its release while another, on the same
\* backend, has one direction ended by an error and the other still
\* running, and is still counted.
C8_Witness ==
    \E c \in ClientIds : \E d \in ClientIds :
        /\ sess[c].ret = "ok" /\ sess[c].released = 1
        /\ sess[d].backend = sess[c].backend
        /\ sess[d].t1 = "err" /\ sess[d].t2 = "running"
        /\ backends[sess[d].backend].active_connections = 1

----------------------------------------------------------------------------
(* C9 *)

\* C9: connection ids are unique per backend and grow in the order of the
\* assignment critical sections: two calls on one backend never hold the
\* same id, the call whose assignment runs later gets an id larger than
\* every id assigned on that backend before, and a call has its id before
\* it attempts the backend connect.
C9_ConnectionIdsUniqueAndIncreasing ==
    /\ [](\A c \in ClientIds :
             /\ sess[c].id = 0 <=> sess[c].pc \in {"none", "start"}
             /\ \A d \in ClientIds :
                   (d # c /\ sess[d].backend = sess[c].backend /\
                    sess[c].id # 0 /\ sess[d].id # 0)
                      => sess[c].id # sess[d].id)
    /\ [][\A c \in ClientIds :
             Moves(c, "start", "connect") =>
                /\ sess'[c].id >= 1
                /\ \A d \in ClientIds :
                      (d # c /\ sess[d].backend = sess[c].backend /\
                       sess[d].id # 0) => sess'[c].id > sess[d].id]_vars

\* Two calls on one backend raced: the client dispatched second ran its
\* assignment first and holds the smaller id.
C9_Witness ==
    /\ sess[1].backend = sess[2].backend
    /\ sess[2].id = 1
    /\ sess[1].id = 2

----------------------------------------------------------------------------
(* C10 *)

\* The listener takes the None branch for the client it holds.
RejectStep == lpc = "returned" /\ lcl.result = 0 /\ lpc' = "accept"

\* C10: for a client next_backend answers None for, the listener loop
\* itself issues the write of the 503 response and shuts the socket down,
\* no handle_client thread is ever spawned for it and nothing is relayed to
\* it, and that branch changes no backend counter; the 503 response is
\* written only to clients answered None.
C10_RejectOnNone ==
    /\ [](\A c \in ClientIds :
             /\ clients[c].result = 0 =>
                   /\ clients[c].resp503 \in {"sent", "failed"}
                   /\ clients[c].shutdown
                   /\ ~clients[c].spawned
                   /\ sess[c] = NoSession
                   /\ clients[c].toClient = 0
             /\ clients[c].resp503 # "none" => clients[c].result = 0)
    /\ [][RejectStep =>
             /\ backends' = backends
             /\ sess' = sess
             /\ clients'[lcl.client].resp503 # "none"
             /\ clients'[lcl.client].shutdown]_vars

\* No backends configured: the first client has been sent the 503 response
\* and its socket is shut down.
C10_Witness ==
    /\ N = 0
    /\ clients[1].result = 0
    /\ clients[1].resp503 = "sent"
    /\ clients[1].shutdown

----------------------------------------------------------------------------
(* C11 *)

\* Session c is in a blocking socket operation: in TcpStream::connect, or in
\* the joins while a relay thread is still in its loop.
Stalled(c) ==
    \/ sess[c].pc = "connect"
    \/ sess[c].pc \in {"spawn_t2", "relay"} /\ ~Joined(sess[c])

\* The listener is between the accept of a client and its dispatch.
InCall == lpc \in {"next_backend", "round_robin", "rr_lock",
                   "least_connections", "lc_key", "returned"}

\* C11 (as claimed): the accept loop never waits for a session: a session
\* that is in connect or in its relay holds no backend lock, so a lock the
\* listener waits for is held by a thread that is leaving its critical
\* section; and however many sessions stay in connect or in relay, and
\* however long, every next_backend call the listener starts completes and
\* its client is dispatched (or rejected): the listener is back at accept.
C11_ListenerNeverWaitsForASession ==
    /\ [](\A c \in ClientIds : Stalled(c) => HeldBy(c) = {})
    /\ [](InCall =>
            \/ ENABLED ListenerStep
            \/ /\ Wants(ListenerThread) # 0
               /\ locks[Wants(ListenerThread)] \notin {0, ListenerThread}
               /\ ENABLED Leaves(locks[Wants(ListenerThread)]))
    /\ (InCall ~> (lpc = "accept"))

\* What holds instead: no session in a blocking socket operation holds a
\* lock, the listener never waits for one, and every call it starts
\* completes; the dispatch that follows brings the listener back to accept
\* unless thread::spawn panics, which ends the listener thread.
ListenerNeverWaitsForALock ==
    /\ [](\A c \in ClientIds : Stalled(c) => HeldBy(c) = {})
    /\ [](InCall =>
            \/ ENABLED ListenerStep
            \/ /\ Wants(ListenerThread) # 0
               /\ locks[Wants(ListenerThread)] \notin {0, ListenerThread}
               /\ ENABLED Leaves(locks[Wants(ListenerThread)]))
    /\ (InCall ~> (lpc \in {"accept", "dead"}))
    /\ [][lpc' = "dead" => lpc \in {"dead", "log_status", "returned"}]_vars

----------------------------------------------------------------------------
(* C12 *)

\* C12: no thread ever holds the locks of two backends at once, and there is
\* no deadlock on the backend locks: whoever holds a lock is not itself
\* waiting, it can take the step that ends its critical section, so every
\* thread that waits for a lock waits for a thread that can go on.
C12_OneLockAtATimeNoDeadlock ==
    /\ \A t \in Threads : Cardinality(HeldBy(t)) <= 1
    /\ \A b \in Pool : locks[b] # 0 => ENABLED Leaves(locks[b])

\* The status thread holds the lock of a backend for which the listener,
\* in a call, waits, while a handler holds another backend's lock.
C12_Witness ==
    \E b \in Pool :
       /\ locks[b] = StatusThread
       /\ InCall
       /\ Wants(ListenerThread) = b
       /\ \E d \in ClientIds : \E b2 \in Pool : b2 # b /\ locks[b2] = d

----------------------------------------------------------------------------
(* C13 *)

\* Direction d of session c leaves the loop of forward in this step.
Exits(c, d) ==
    /\ ThreadOf(sess[c], d) = "running"
    /\ Ended(ThreadOf(sess'[c], d))

\* C13: the two relay directions are independent.  The step in which one
\* direction terminates leaves the other direction's thread, the bytes it
\* has relayed and both peers' sockets as they are (it closes none; a failed
\* read or write only takes the error a reset had left); and while that other
\* direction is still running after it, both sockets stay open on the
\* balancer's side and bytes that arrive at its source are relayed: it can
\* read them, and it can write what it has read unless the connection of
\* the destination is reset.
C13_DirectionsIndependent ==
    /\ [][\A c \in ClientIds : \A d \in Directions :
            Exits(c, d) =>
               /\ ThreadOf(sess'[c], Other(d)) = ThreadOf(sess[c], Other(d))
               /\ rly'[Other(d)] = rly[Other(d)]
               /\ ErrTaken(ErrTaken(sock', "client"), "backend")
                     = ErrTaken(ErrTaken(sock, "client"), "backend")]_vars
    /\ [](\A c \in ClientIds : \A d \in Directions :
            /\ ThreadOf(sess[c], d) = "running"
            /\ Ended(ThreadOf(sess[c], Other(d)))
            => /\ OpenHandles(sess[c]) > 0
               /\ Reading(c, d) /\ Unread(d) > 0 => ENABLED ForwardRead(c, d)
               /\ Writing(c, d) /\ sock[Dst(d)].st # "reset"
                     => ENABLED ForwardWrite(c, d))

\* The client has shut down and client->backend has ended at the end of the
\* stream; backend->client is running, has relayed bytes and has more to
\* relay.
C13_Witness ==
    /\ sess[1].pc = "relay"
    /\ sess[1].t1 = "eof"
    /\ sess[1].t2 = "running"
    /\ rly["b2c"].wr # <<>>
    /\ Unread("b2c") > 0

----------------------------------------------------------------------------
(* C14 *)

IsPrefix(a, b) == Len(a) <= Len(b) /\ SubSeq(b, 1, Len(a)) = a

\* C14: in each relay direction, whatever the chunks and whenever the peers
\* close, the bytes written to the destination are a prefix of the bytes
\* read from the source (which are a prefix of the bytes the source sent):
\* same bytes, same order, none twice; and when the direction has ended at
\* the end of the stream, with no write failure, all bytes read have been
\* written.
C14_WrittenIsPrefixOfRead ==
    \A d \in Directions :
       /\ IsPrefix(rly[d].wr, rly[d].rd)
       /\ IsPrefix(rly[d].rd, Stream(Src(d)))
       /\ \A c \in ClientIds :
             ThreadOf(sess[c], d) = "eof" => rly[d].wr = rly[d].rd

\* client->backend has ended at the end of a stream of MaxBytes bytes, all
\* of them written; backend->client has ended on a write failure in the
\* middle of a chunk, after it had written bytes.
C14_Witness ==
    /\ sess[1].pc = "relay"
    /\ sess[1].t1 = "eof"
    /\ Len(rly["c2b"].wr) = MaxBytes
    /\ sess[1].t2 = "err"
    /\ rly["b2c"].wr # <<>>
    /\ Len(rly["b2c"].wr) < Len(rly["b2c"].rd)

----------------------------------------------------------------------------
(* C15 *)

\* The values the call in progress has read are the values the counters
\* hold now (as they are when no counter changes during the call).
KeysCurrent ==
    \A i \in 1..Len(lcl.keys) :
       lcl.keys[i] # -1 => lcl.keys[i] = backends[i].active_connections

\* The non-maintenance backends that hold the least active_connections.
Minima == {i \in EligibleSet : IsMinNow(i)}

\* C15: under LeastConnections, when no counter has changed during the call
\* and several non-maintenance backends share the minimum of
\* active_connections, next_backend returns the one with the lowest pool
\* index; in any case it returns the first of the backends for which it
\* read the least value.
C15_LeastConnectionsTieBreak ==
    lpc = "returned" /\ strategy = "LeastConnections" /\ lcl.result # 0 =>
       /\ \A i \in Pool :
             lcl.keys[i] # -1 /\ lcl.keys[i] = lcl.keys[lcl.result] =>
                lcl.result <= i
       /\ KeysCurrent =>
             /\ lcl.result \in Minima
             /\ \A i \in Minima : lcl.result <= i

\* A call has returned backend 2 of a pool in which backends 2 and 3 share
\* the minimum and backend 1 holds more; no counter changed meanwhile.
C15_Witness ==
    /\ lpc = "returned"
    /\ strategy = "LeastConnections"
    /\ KeysCurrent
    /\ lcl.result = 2
    /\ Minima = {2, 3}
    /\ Eligible(backends[1])

----------------------------------------------------------------------------
(* C16 *)

\* The number of candidates a returned round_robin call has examined: the
\* ones it skipped, and the one it returned if it returned one.
Examined == IF lcl.result # 0 THEN lcl.iter + 1 ELSE lcl.iter

\* The j-th candidate (j = 1, 2, ...) of a scan that started at cursor c.
Candidate(c, j) == ((c + j - 1) % N) + 1

\* C16: a round_robin call on a pool of n > 0 backends that starts with the
\* cursor at c examines the backends at c, c+1, ... (mod n) in that order
\* and returns the first that is not under maintenance; it leaves the cursor
\* at (c + k) mod n, k being the number of candidates examined, 1 <= k <= n:
\* one past the returned backend, and back at c (k = n) when it returns
\* None.
C16_RoundRobinScan ==
    /\ lpc = "rr_lock" =>
          /\ lcl.idx = Candidate(lcl.start, lcl.iter + 1)
          /\ \A j \in 1..lcl.iter : backends[Candidate(lcl.start, j)].maintenance
    /\ lpc = "returned" /\ strategy = "RoundRobin" /\ N > 0 =>
       /\ Examined \in 1..N
       /\ current = (lcl.start + Examined) % N
       /\ \A j \in 1..(Examined - 1) :
             backends[Candidate(lcl.start, j)].maintenance
       /\ IF lcl.result # 0
             THEN /\ lcl.result = Candidate(lcl.start, Examined)
                  /\ ~backends[lcl.result].maintenance
                  /\ current = lcl.result % N
             ELSE /\ Examined = N
                  /\ backends[Candidate(lcl.start, N)].maintenance
                  /\ current = lcl.start

\* A call that started with the cursor at 2 in a pool of 3 has skipped
\* backends 3 and 1 and returned backend 2: the cursor has wrapped around
\* and stands at 2 again, one past the returned backend.
C16_Witness ==
    /\ lpc = "returned"
    /\ strategy = "RoundRobin"
    /\ N = 3
    /\ lcl.start = 2
    /\ lcl.result = 2
    /\ Examined = 3
    /\ current = 2

\* A call on a pool of 3 backends, all under maintenance, that started with
\* the cursor at 0 has returned None after 3 candidates.
C16_WitnessNone ==
    /\ lpc = "returned"
    /\ strategy = "RoundRobin"
    /\ N = 3
    /\ lcl.result = 0
    /\ Examined = 3

----------------------------------------------------------------------------
(* C17 *)

\* The pool as construction left it: its backends' addresses in pool order.
PoolOrder(bs) == [i \in 1..Len(bs) |-> bs[i].address]

\* C17: while the pool is not empty the cursor is an index into it,
\* 0 <= current < pool size, and the pool's size and order never change
\* after construction, whatever next_backend, log_status and handle_client
\* do.
C17_CursorInRangePoolFixed ==
    /\ [](N > 0 => current \in 0..(N - 1))
    /\ [](N = 0 => current = 0)
    /\ [][PoolOrder(backends') = PoolOrder(backends)]_vars

\* log_status has run, three calls of next_backend have been answered on a
\* pool of two, a handle_client call has returned, and the cursor, which has
\* wrapped around, stands at 1.
C17_Witness ==
    /\ lpc = "accept"
    /\ N = 2
    /\ current = 1
    /\ Cardinality(Answered) = 3
    /\ \E c \in ClientIds : sess[c].pc = "done" /\ sess[c].released = 1

----------------------------------------------------------------------------
(* C19 *)

\* The listener thread takes a step of a next_backend call, or the step
\* that follows its return (the spawn of the handler, or the 503).
SelectorStep ==
    /\ lpc \in {"next_backend", "round_robin", "rr_lock", "least_connections",
                "lc_key", "returned"}
    /\ <<lpc, lcl, current>>' # <<lpc, lcl, current>>

\* Session c runs its assignment step on its backend, which changes that
\* backend's two counters and nothing else of the pool.
AssignStep(c) ==
    /\ Moves(c, "start", "connect")
    /\ backends' = [backends EXCEPT
                       ![sess[c].backend].active_connections = @ + 1,
                       ![sess[c].backend].total_handled = @ + 1]

\* C19: a next_backend call, with either strategy and whatever it returns,
\* leaves address, active_connections, total_handled and maintenance of
\* every backend as they are, and so does the dispatch; the counters go up
\* only in the assignment step of the handler thread, so that a session
\* that is dispatched and has not run that step is not counted in
\* active_connections (nor in total_handled).
C19_SelectionChangesNoBackend ==
    /\ [][SelectorStep => backends' = backends]_vars
    /\ [][\A c \in ClientIds :
            sess[c].pc = "start" /\ sess'[c].pc # "start" => AssignStep(c)]_vars
    /\ [][\A b \in Pool :
            backends'[b].active_connections > backends[b].active_connections
            \/ backends'[b].total_handled # backends[b].total_handled
            => \E c \in ClientIds : sess[c].backend = b /\ AssignStep(c)]_vars
    /\ [](\A b \in Pool :
            /\ backends[b].active_connections = Cardinality(Counted(b))
            /\ backends[b].total_handled = Cardinality(AssignedTo(b)))

\* Client 1 has been dispatched to a backend and its handler has not run
\* its assignment step: the backend's counters are still 0, and a second
\* LeastConnections call, in a pool of several backends, has returned the
\* same backend.
C19_Witness ==
    /\ strategy = "LeastConnections"
    /\ N > 1
    /\ sess[1].pc = "start"
    /\ backends[sess[1].backend].active_connections = 0
    /\ backends[sess[1].backend].total_handled = 0
    /\ lpc = "returned"
    /\ lcl.client = 2
    /\ lcl.result = sess[1].backend

----------------------------------------------------------------------------
(* C20 *)

\* C20: for every backend, in every reachable state, total_handled never
\* decreases, it equals the number of handle_client assignment steps run on
\* that backend so far, and active_connections <= total_handled.
C20_TotalHandledCountsAssignments ==
    /\ [](\A b \in Pool :
            /\ backends[b].total_handled = Cardinality(AssignedTo(b))
            /\ backends[b].active_connections <= backends[b].total_handled)
    /\ [][\A b \in Pool :
            /\ backends'[b].total_handled >= backends[b].total_handled
            /\ backends'[b].total_handled # backends[b].total_handled =>
                  /\ backends'[b].total_handled = backends[b].total_handled + 1
                  /\ \E c \in ClientIds :
                        sess[c].backend = b /\ Moves(c, "start", "connect")]_vars

\* A backend has been assigned three sessions, of which one is still
\* counted in active_connections.
C20_Witness ==
    \E b \in Pool :
       /\ backends[b].total_handled = 3
       /\ backends[b].active_connections = 1

----------------------------------------------------------------------------
(* C18 *)

\* Both peers have closed their socket or failed.
PeersGone == \A p \in Peers : sock[p].st \in {"closed", "reset"}

\* Session c has returned from handle_client with both relay threads
\* terminated and joined.
RelayOver(c) ==
    sess[c].pc = "done" /\ sess[c].t1 = "joined" /\ sess[c].t2 = "joined"

\* C18 (as claimed): under fair scheduling of the handler and relay threads,
\* a dispatched session whose client and backend have both closed or failed
\* eventually has both relay directions terminated and has returned from
\* handle_client with its backend's active_connections decremented: no
\* session stays counted once both peers are gone.
C18_SessionEndsOncePeersGone ==
    \A c \in ClientIds :
       (sess[c].id # 0 /\ PeersGone) ~>
          (RelayOver(c) /\ sess[c].released = 1 /\
           backends[sess[c].backend].active_connections = 0)

\* What holds instead: every relay thread terminates, and the session
\* returns released unless it returned through a failed try_clone or its
\* handler died in thread::spawn, in which cases it stays counted.
SessionEndsOrLeaksOncePeersGone ==
    \A c \in ClientIds :
       (sess[c].id # 0 /\ PeersGone) ~>
          /\ sess[c].t1 # "running" /\ sess[c].t2 # "running"
          /\ \/ RelayOver(c) /\ sess[c].released = 1 /\
                backends[sess[c].backend].active_connections = 0
             \/ /\ c \in ReturnedOnCloneError(sess[c].backend)
                       \cup DiedInSpawn(sess[c].backend)
                /\ backends[sess[c].backend].active_connections = 1

====
